---- MODULE Spec2Model ----
(***************************************************************************)
(* State-machine model of the ChatBot widget                               *)
(* (src/chatbot_frontend/src/ChatBot.jsx).                                  *)
(*                                                                         *)
(* The React state of the component is the state of the model.  Every      *)
(* event handler, and every resumption of an async function after an       *)
(* await, is one atomic action: JavaScript runs each of them to completion *)
(* and React re-renders before the next discrete event is dispatched, so   *)
(* every handler reads the state of the latest render.  The state updates  *)
(* an async function makes after an await take effect for the handlers     *)
(* when React commits them; the response actions below stand for that      *)
(* commit, so the variables always hold the values the handlers close      *)
(* over.  The component is mounted once.                                   *)
(*                                                                         *)
(* Texts are sequences of one-character strings.  The JavaScript values    *)
(* null and undefined are written as the tokens below.                     *)
(***************************************************************************)
EXTENDS Integers, Sequences, FiniteSets, TLC

VARIABLES
    sessionId,      \* useState(null), line 7
    messages,       \* useState([greeting]), lines 8-10: the transcript
    input,          \* useState(""), line 11: the draft
    loading,        \* useState(false), line 12
    isOpen,         \* useState(false), line 13
    sessionPc,      \* position of startSession: "mount", "pending", "stored", "failed"
    sessionStarts,  \* number of POST /session/start requests issued
    inflight,       \* the sendMessage calls suspended at their fetch (lines 44-49)
    smartLog,       \* every POST /smart request body issued so far, in order
    lastOp          \* the handler that ran last, with the draft / reply it handled

vars == <<sessionId, messages, input, loading, isOpen, sessionPc,
          sessionStarts, inflight, smartLog, lastOp>>

-----------------------------------------------------------------------------
(* Bounds of the model *)

MaxLen == 2
MaxSends == 2

-----------------------------------------------------------------------------
(* Values *)

Chars == {" ", "a"}
Whitespace == {" "}

Drafts == UNION {[1..n -> Chars] : n \in 0..MaxLen}

Null == "<null>"
Undefined == "<undefined>"
UndefinedText == <<Undefined>>

\* line 9
Greeting == <<"Hello! I'm OmegaAI. How can I help you today?">>

\* line 52 (the text after the warning sign)
Fallback == <<"I couldn't connect to the server.">>

\* data.reply of a decoded /smart response body (line 50); a body without
\* the field gives undefined
Replies == {<<"h", "i">>, UndefinedText}

\* data.session_id of a decoded /session/start response body (line 27)
SessionIdValues == {"abc", "", Undefined}

\* line 8-10
InitialMessages == <<[sender |-> "bot", text |-> Greeting]>>

NoText == <<>>

-----------------------------------------------------------------------------
(* Pure helpers *)

RECURSIVE TrimStart(_)
TrimStart(s) ==
    IF s = <<>> THEN s
    ELSE IF Head(s) \in Whitespace THEN TrimStart(Tail(s)) ELSE s

RECURSIVE TrimEnd(_)
TrimEnd(s) ==
    IF s = <<>> THEN s
    ELSE IF s[Len(s)] \in Whitespace THEN TrimEnd(SubSeq(s, 1, Len(s) - 1)) ELSE s

\* String.prototype.trim (lines 36, 38, 148, 152)
Trim(s) == TrimEnd(TrimStart(s))

\* JavaScript truthiness of a session id value (lines 32, 36, 139)
Truthy(v) == v \notin {Null, Undefined, ""}

\* line 38: const userMsg = { sender: "user", text: input.trim() }
UserMsgRaw(draft) == [sender |-> "user", text |-> draft]
UserMsg(draft) == [sender |-> "user", text |-> Trim(draft)]

\* lines 50, 52
BotMsg(text) == [sender |-> "bot", text |-> text]

\* [...prev, msg] (lines 39, 50, 52)
PrependMsg(prev, msg) == <<msg>> \o prev
AppendMsg(prev, msg) == Append(prev, msg)

\* line 47: the request body
RequestBody(userMsg, sid) == [message |-> userMsg.text, session_id |-> sid]

\* line 36: if (!input.trim() || loading || !sessionId) return;
SendRejectedNoTrim(draft, isLoading, sid) ==
    draft = <<>> \/ isLoading \/ ~Truthy(sid)
SendRejectedNoLoading(draft, isLoading, sid) ==
    Trim(draft) = <<>> \/ ~Truthy(sid)
SendRejected(draft, isLoading, sid) ==
    Trim(draft) = <<>> \/ isLoading \/ ~Truthy(sid)

\* line 152: disabled={!input.trim() || loading}
SendButtonDisabled == Trim(input) = <<>> \/ loading

RemoveAt(s, i) == SubSeq(s, 1, i - 1) \o SubSeq(s, i + 1, Len(s))

Op(name, draft, reply) == [name |-> name, draft |-> draft, reply |-> reply]

-----------------------------------------------------------------------------
(* Initial state: the first render, before the mount effect has run *)

Init ==
    /\ sessionId = Null
    /\ messages = InitialMessages
    /\ input = <<>>
    /\ loading = FALSE
    /\ isOpen = FALSE
    /\ sessionPc = "mount"
    /\ sessionStarts = 0
    /\ inflight = <<>>
    /\ smartLog = <<>>
    /\ lastOp = Op("init", NoText, NoText)

-----------------------------------------------------------------------------
(* Session acquisition, lines 22-33 *)

\* The mount effect: if (!sessionId) startSession(), up to the await of fetch.
MountEffect ==
    /\ sessionPc = "mount"
    /\ IF ~Truthy(sessionId)
       THEN /\ sessionPc' = "pending"
            /\ sessionStarts' = sessionStarts + 1
       ELSE /\ sessionPc' = "stored"
            /\ UNCHANGED sessionStarts
    /\ lastOp' = Op("mount", NoText, NoText)
    /\ UNCHANGED <<sessionId, messages, input, loading, isOpen, inflight, smartLog>>

\* fetch and res.json() succeed: setSessionId(data.session_id), line 27.
SessionResolve ==
    /\ sessionPc = "pending"
    /\ \E sid \in SessionIdValues :
          sessionId' = sid
    /\ sessionPc' = "stored"
    /\ lastOp' = Op("session:ok", NoText, NoText)
    /\ UNCHANGED <<messages, input, loading, isOpen, sessionStarts, inflight, smartLog>>

\* A variant of the catch block that starts the session again.
SessionRejectRetry ==
    /\ sessionPc = "pending"
    /\ sessionStarts < MaxSends + 1
    /\ sessionPc' = "pending"
    /\ sessionStarts' = sessionStarts + 1
    /\ lastOp' = Op("session:fail", NoText, NoText)
    /\ UNCHANGED <<sessionId, messages, input, loading, isOpen, inflight, smartLog>>

\* fetch rejects, or the body does not decode: the catch block only logs
\* (lines 28-30).
SessionReject ==
    /\ sessionPc = "pending"
    /\ sessionPc' = "failed"
    /\ lastOp' = Op("session:fail", NoText, NoText)
    /\ UNCHANGED <<sessionId, messages, input, loading, isOpen, sessionStarts,
                   inflight, smartLog>>

-----------------------------------------------------------------------------
(* sendMessage, lines 35-55 *)

\* The accepted part of sendMessage up to the await of fetch (lines 38-48).
SendAcceptedKeepDraft ==
    /\ Len(smartLog) < MaxSends
    /\ messages' = AppendMsg(messages, UserMsg(input))
    /\ loading' = TRUE
    /\ input' = input
    /\ inflight' = Append(inflight, [draft |-> input,
                                     userMsg |-> UserMsg(input),
                                     sessionId |-> sessionId])
    /\ smartLog' = Append(smartLog, RequestBody(UserMsg(input), sessionId))
    /\ UNCHANGED <<sessionId, isOpen, sessionPc, sessionStarts>>

SendAccepted ==
    /\ Len(smartLog) < MaxSends
    /\ messages' = AppendMsg(messages, UserMsg(input))
    /\ loading' = TRUE
    /\ input' = <<>>
    /\ inflight' = Append(inflight, [draft |-> input,
                                     userMsg |-> UserMsg(input),
                                     sessionId |-> sessionId])
    /\ smartLog' = Append(smartLog, RequestBody(UserMsg(input), sessionId))
    /\ UNCHANGED <<sessionId, isOpen, sessionPc, sessionStarts>>

\* One invocation of sendMessage, from entry to its first await or return.
sendMessage ==
    /\ lastOp' = Op("sendMessage", input, NoText)
    /\ IF SendRejected(input, loading, sessionId)
       THEN UNCHANGED <<sessionId, messages, input, loading, isOpen, sessionPc,
                        sessionStarts, inflight, smartLog>>
       ELSE SendAccepted

\* onKeyDown with e.key === "Enter" (line 142).  The input exists only in
\* the open view.  Its disabled attribute (line 143) is not taken as a
\* guard of the key and change handlers: React suppresses only mouse events
\* on disabled controls, and whether a key, composition or change event
\* still reaches a focused control that has just become disabled depends on
\* the browser.  The handlers are therefore modelled as callable whenever
\* the input is rendered, which includes every behaviour of the widget.
KeyDownEnter ==
    /\ isOpen
    /\ sendMessage

\* onClick of the send button (line 146); a disabled button gets no click.
ClickSend ==
    /\ isOpen
    /\ ~SendButtonDisabled
    /\ sendMessage

\* onChange of the input (line 141): setInput(e.target.value).
OnChange ==
    /\ isOpen
    /\ \E v \in Drafts :
          /\ v # input
          /\ input' = v
    /\ lastOp' = Op("onChange", NoText, NoText)
    /\ UNCHANGED <<sessionId, messages, loading, isOpen, sessionPc, sessionStarts,
                   inflight, smartLog>>

\* fetch and res.json() of a suspended call succeed (lines 49-50, 54).
SmartResolve ==
    \E i \in 1..Len(inflight) : \E r \in Replies :
        /\ messages' = AppendMsg(messages, BotMsg(r))
        /\ loading' = FALSE
        /\ inflight' = RemoveAt(inflight, i)
        /\ lastOp' = Op("smart:ok", inflight[i].draft, r)
        /\ UNCHANGED <<sessionId, input, isOpen, sessionPc, sessionStarts, smartLog>>

\* Variants of the catch path of a suspended call.
SmartRejectKeepLoading ==
    \E i \in 1..Len(inflight) :
        /\ messages' = AppendMsg(messages, BotMsg(Fallback))
        /\ loading' = loading
        /\ inflight' = RemoveAt(inflight, i)
        /\ lastOp' = Op("smart:fail", inflight[i].draft, NoText)
        /\ UNCHANGED <<sessionId, input, isOpen, sessionPc, sessionStarts, smartLog>>

SmartRejectRetry ==
    \E i \in 1..Len(inflight) :
        /\ messages' = AppendMsg(messages, BotMsg(Fallback))
        /\ loading' = FALSE
        /\ inflight' = inflight
        /\ smartLog' = IF Len(smartLog) < MaxSends + 1
                       THEN Append(smartLog, RequestBody(inflight[i].userMsg,
                                                         inflight[i].sessionId))
                       ELSE smartLog
        /\ lastOp' = Op("smart:fail", inflight[i].draft, NoText)
        /\ UNCHANGED <<sessionId, input, isOpen, sessionPc, sessionStarts>>

SmartRejectSilent ==
    \E i \in 1..Len(inflight) :
        /\ messages' = messages
        /\ loading' = FALSE
        /\ inflight' = RemoveAt(inflight, i)
        /\ lastOp' = Op("smart:fail", inflight[i].draft, NoText)
        /\ UNCHANGED <<sessionId, input, isOpen, sessionPc, sessionStarts, smartLog>>

\* fetch of a suspended call rejects, or the body does not decode
\* (lines 51-54).
SmartReject ==
    \E i \in 1..Len(inflight) :
        /\ messages' = AppendMsg(messages, BotMsg(Fallback))
        /\ loading' = FALSE
        /\ inflight' = RemoveAt(inflight, i)
        /\ lastOp' = Op("smart:fail", inflight[i].draft, NoText)
        /\ UNCHANGED <<sessionId, input, isOpen, sessionPc, sessionStarts, smartLog>>

-----------------------------------------------------------------------------
(* Visibility, lines 58-99 *)

\* A variant of the open handler that starts the session again.
OpenWidgetRefetch ==
    /\ ~isOpen
    /\ isOpen' = TRUE
    /\ sessionStarts' = IF sessionStarts < MaxSends + 1 THEN sessionStarts + 1 ELSE sessionStarts
    /\ lastOp' = Op("open", NoText, NoText)
    /\ UNCHANGED <<sessionId, messages, input, loading, sessionPc, inflight, smartLog>>

\* onClick of the bubble or of the toggle button in the closed view
\* (lines 62, 68): setIsOpen(true).
OpenWidget ==
    /\ ~isOpen
    /\ isOpen' = TRUE
    /\ lastOp' = Op("open", NoText, NoText)
    /\ UNCHANGED <<sessionId, messages, input, loading, sessionPc, sessionStarts,
                   inflight, smartLog>>

\* onClick of the minimize button in the open view (line 97):
\* setIsOpen(false).
Minimize ==
    /\ isOpen
    /\ isOpen' = FALSE
    /\ lastOp' = Op("minimize", NoText, NoText)
    /\ UNCHANGED <<sessionId, messages, input, loading, sessionPc, sessionStarts,
                   inflight, smartLog>>

Toggle == OpenWidget \/ Minimize

-----------------------------------------------------------------------------

Next ==
    \/ MountEffect
    \/ SessionResolve
    \/ SessionReject
    \/ KeyDownEnter
    \/ ClickSend
    \/ OnChange
    \/ SmartResolve
    \/ SmartReject
    \/ OpenWidget
    \/ Minimize

Spec == Init /\ [][Next]_vars

\* Every request the backend receives is eventually answered or fails.
FairSpec == Spec /\ WF_vars(SmartResolve \/ SmartReject)

-----------------------------------------------------------------------------
(* Properties *)

IsPrefix(s, t) == Len(s) <= Len(t) /\ SubSeq(t, 1, Len(s)) = s

LastTwo(s) == SubSeq(s, Len(s) - 1, Len(s))

CountSender(s, who) == Cardinality({i \in 1..Len(s) : s[i].sender = who})

\* C1: a sendMessage invoked while the trimmed draft is empty, or loading is
\* true, or the session id is absent changes nothing: transcript, draft,
\* loading flag, session id and visibility keep their values and no request
\* is issued.
C1_RejectedSendIsNoOp ==
    [][(/\ lastOp'.name = "sendMessage"
        /\ (Trim(input) = <<>> \/ loading \/ ~Truthy(sessionId)))
       => UNCHANGED <<messages, input, loading, sessionId, isOpen,
                      inflight, smartLog, sessionStarts>>]_vars

\* sendMessage has just run on a whitespace-only draft with a session stored
\* and nothing loading.
C1_Witness ==
    /\ lastOp.name = "sendMessage"
    /\ lastOp.draft # <<>>
    /\ Trim(lastOp.draft) = <<>>
    /\ Truthy(sessionId)
    /\ ~loading

\* C2: at most one /smart request is in flight in every reachable state, and
\* a request is issued only when no earlier one is still awaiting its
\* response.
C2_SingleInFlight ==
    /\ [](Len(inflight) <= 1)
    /\ [][Len(smartLog') > Len(smartLog) => inflight = <<>>]_vars

\* A second send is in flight after the first was answered, and Enter was
\* pressed again meanwhile.
C2_Witness ==
    /\ Len(smartLog) = 2
    /\ Len(inflight) = 1
    /\ lastOp.name = "sendMessage"
    /\ Trim(lastOp.draft) # <<>>
    /\ input # <<>>

\* C3: when the response to an accepted send of draft d has been processed
\* with reply r, the transcript ends with [user: trim(d), bot: r] and loading
\* is false.
C3_SuccessAppendsReply ==
    lastOp.name = "smart:ok" =>
        /\ Len(messages) >= 2
        /\ LastTwo(messages) = <<[sender |-> "user", text |-> Trim(lastOp.draft)],
                                 [sender |-> "bot", text |-> lastOp.reply]>>
        /\ ~loading

\* A draft with surrounding whitespace was answered with "hi".
C3_Witness ==
    /\ lastOp.name = "smart:ok"
    /\ lastOp.draft # Trim(lastOp.draft)
    /\ lastOp.reply = <<"h", "i">>

\* C4: when the failure of an accepted send has been processed, the
\* transcript ends with the user message followed by the fallback notice,
\* loading is false, and no further request was issued for the message: no
\* request is in flight and the requests issued are one per user message.
C4_FailureAppendsFallback ==
    lastOp.name = "smart:fail" =>
        /\ Len(messages) >= 2
        /\ LastTwo(messages) = <<[sender |-> "user", text |-> Trim(lastOp.draft)],
                                 [sender |-> "bot", text |-> Fallback]>>
        /\ ~loading
        /\ inflight = <<>>
        /\ Len(smartLog) = CountSender(messages, "user")
        /\ smartLog[Len(smartLog)].message = Trim(lastOp.draft)

\* The second send failed.
C4_Witness ==
    /\ lastOp.name = "smart:fail"
    /\ Len(smartLog) = 2
    /\ messages[Len(messages)].text = Fallback

\* C5: a /smart request exists only once a session id is stored, and carries
\* it; with a session id stored, a sendMessage on a non-blank draft while not
\* loading is accepted; after a failed session start there is never a second
\* session-start request, the session id stays absent, no /smart request is
\* issued and the transcript keeps its initial value.
C5_SessionGatesSending ==
    /\ [](smartLog # <<>> =>
            /\ sessionPc = "stored"
            /\ Truthy(sessionId)
            /\ \A i \in 1..Len(smartLog) : smartLog[i].session_id = sessionId)
    /\ [][(/\ lastOp'.name = "sendMessage"
           /\ Truthy(sessionId)
           /\ Trim(input) # <<>>
           /\ ~loading)
          => Len(smartLog') = Len(smartLog) + 1]_vars
    /\ [](sessionStarts <= 1)
    /\ [](sessionPc = "failed" =>
            /\ sessionStarts = 1
            /\ ~Truthy(sessionId)
            /\ smartLog = <<>>
            /\ messages = InitialMessages)
    /\ [][sessionPc = "failed" => sessionPc' = "failed"]_vars

\* The session start failed and sendMessage then ran on a non-blank draft.
C5_Witness ==
    /\ sessionPc = "failed"
    /\ lastOp.name = "sendMessage"
    /\ Trim(lastOp.draft) # <<>>

\* C6: the step that processes the response of a send, success or failure,
\* ends with loading false; and if every request completes, loading true
\* leads to loading false.
C6_LoadingCleared ==
    /\ [][(loading /\ lastOp'.name \in {"smart:ok", "smart:fail"}) => ~loading']_vars
    /\ (loading ~> ~loading)

\* A failed send has been processed and loading is off.
C6_Witness ==
    /\ lastOp.name = "smart:fail"
    /\ ~loading
    /\ Len(smartLog) = 1

\* C7: the visibility toggle is enabled in every state, flips isOpen and
\* changes nothing else of the widget, and issues no request.
C7_ToggleOnlyVisibility ==
    /\ [](ENABLED Toggle)
    /\ [][lastOp'.name \in {"open", "minimize"} =>
            /\ isOpen' = ~isOpen
            /\ UNCHANGED <<messages, loading, input, sessionId, sessionPc,
                           sessionStarts, inflight, smartLog>>]_vars

\* The widget was minimized while a send was in flight.
C7_Witness ==
    /\ lastOp.name = "minimize"
    /\ ~isOpen
    /\ loading
    /\ inflight # <<>>

\* C8: every step leaves the transcript it found as a prefix of the
\* transcript it leaves.
C8_AppendOnly ==
    [][IsPrefix(messages, messages')]_vars

\* Two exchanges have been appended to the greeting.
C8_Witness ==
    /\ Len(messages) = 5
    /\ lastOp.name = "smart:ok"

\* C9: an accepted sendMessage appends one user message holding the trimmed
\* draft, empties the draft, sets loading, and issues one request carrying
\* the trimmed text and the stored session id; session id and visibility are
\* unchanged.
C9_AcceptedSendEffects ==
    [][(/\ lastOp'.name = "sendMessage"
        /\ ~(Trim(input) = <<>> \/ loading \/ ~Truthy(sessionId)))
       => /\ messages' = Append(messages, [sender |-> "user", text |-> Trim(input)])
          /\ input' = <<>>
          /\ loading' = TRUE
          /\ smartLog' = Append(smartLog, [message |-> Trim(input),
                                           session_id |-> sessionId])
          /\ Len(inflight') = Len(inflight) + 1
          /\ UNCHANGED <<sessionId, isOpen>>]_vars

\* The first send, of a draft with surrounding whitespace, has been accepted.
C9_Witness ==
    /\ lastOp.name = "sendMessage"
    /\ lastOp.draft # Trim(lastOp.draft)
    /\ Trim(lastOp.draft) # <<>>
    /\ loading
    /\ input = <<>>
    /\ Len(smartLog) = 1
    /\ Len(inflight) = 1

\* C10: the transcript starts with the bot greeting and alternates user and
\* bot; while not loading it ends with a bot message and holds one more bot
\* message than user messages, while loading it ends with a user message and
\* holds as many of each.
C10_Alternation ==
    /\ Len(messages) >= 1
    /\ messages[1] = [sender |-> "bot", text |-> Greeting]
    /\ \A i \in 1..Len(messages) :
          messages[i].sender = IF i % 2 = 1 THEN "bot" ELSE "user"
    /\ ~loading =>
          /\ messages[Len(messages)].sender = "bot"
          /\ CountSender(messages, "bot") = CountSender(messages, "user") + 1
    /\ loading =>
          /\ messages[Len(messages)].sender = "user"
          /\ CountSender(messages, "bot") = CountSender(messages, "user")

\* A second user message awaits its answer after a fallback notice.
C10_Witness ==
    /\ Len(messages) = 4
    /\ loading
    /\ messages[3].text = Fallback

====
